---- MODULE Spec2Model ----
(***************************************************************************)
(* Model of the globomantics web applications:                             *)
(*   - the server process of Persistence-and-Advanced-Workload-Management/ *)
(*     globomantics-webapp/app.py: module-level startup (delay, database   *)
(*     probe, server start) and the three health handlers run by request   *)
(*     threads under _health_fail_lock              (Spec, FairSpec);      *)
(*   - inject_variant_banner, character by character (SpecRender);         *)
(*   - serve_file over a small file system           (SpecFiles).          *)
(***************************************************************************)
EXTENDS Integers, Sequences, FiniteSets, TLC

\* ------------------------------------------------------------------ bounds
MaxDelay == 1        \* largest STARTUP_DELAY tried (seconds)
MaxParts == 5        \* pieces concatenated into an html_text input
MaxSegs == 3         \* segments of a requested filename

VARIABLES
    \* configuration read at import time
    DB_REQUIRED, APP_VARIANT,
    \* module-level startup: where the main thread is, the seconds of sleep left,
    \* the probe's outcome and return value, the exit status, the records written
    \* through app.logger, the interpreter's stderr; startupTrace is the history of
    \* the startup steps taken
    phase, delayLeft, probeResult, conn, exitCode, log, stderr, startupTrace,
    \* health state: _health_fail, _health_fail_reason, _health_fail_lock (its holder)
    health_fail_flag, health_fail_reason, health_fail_lock,
    \* per request thread: position, request, the local `reason`, the response built;
    \* history: io (the I/O steps of the request), seen and pre (the last mutation
    \* and the pair found when the lock was taken); lastMut is the last mutation
    \* that took the lock
    pc, req, reason, io, resp, seen, pre, lastMut,
    \* inject_variant_banner
    html_text, rendered, calls,
    \* serve_file
    files, filename, served

configVars == <<DB_REQUIRED, APP_VARIANT>>
startupVars == <<phase, delayLeft, probeResult, conn, exitCode, log, stderr, startupTrace>>
healthVars == <<health_fail_flag, health_fail_reason, health_fail_lock,
                pc, req, reason, io, resp, seen, pre, lastMut>>
renderVars == <<html_text, rendered, calls>>
fileVars == <<files, filename, served>>
vars == <<configVars, startupVars, healthVars, renderVars, fileVars>>

\* Python's None
None == "None"

\* ------------------------------------------------------------ startup probe
db_keys == <<"DB_USER", "DB_PASSWORD", "DB_HOST", "DB_PORT", "DB_NAME">>

DbKeySet == {db_keys[i] : i \in 1..Len(db_keys)}

\* values os.getenv can give for a key: unset, empty, a word, a number
EnvValues == {None, "", "pg", "5432"}

\* Python truthiness of an os.getenv result: None and "" are falsy
Truthy(v) == v # None /\ v # ""

\* int(s) succeeds
IsInt(v) == v = "5432"

RECURSIVE MissingFrom(_, _)
\* [k for k, v in db_envs.items() if not v], in db_keys order, from index i
MissingFrom(env, i) ==
    IF i > Len(db_keys) THEN <<>>
    ELSE (IF Truthy(env[db_keys[i]]) THEN <<>> ELSE <<db_keys[i]>>)
         \o MissingFrom(env, i + 1)

missing(env) == MissingFrom(env, 1)

\* one record written through app.logger; cont marks the
\* "; continuing because DB_REQUIRED is not set" suffix
LogRecord(level, text, cont) == [level |-> level, text |-> text, cont |-> cont]

MsgMissing == "Missing DB environment variables"
MsgFailed == "Failed to connect to Postgres"

\* raise SystemExit(msg): the interpreter writes msg to stderr and the process
\* ends with status 1; nothing after the raise runs. exitCode holds the status
\* once the process has ended, and is empty while it runs.
SystemExit(msg) ==
    /\ phase' = "exited"
    /\ exitCode' = <<1>>
    /\ stderr' = Append(stderr, msg)

\* return from init_db_connection to the module level (line 240 drops the value)
ProbeReturns(value) ==
    /\ phase' = "probed"
    /\ conn' = value
    /\ UNCHANGED <<exitCode, stderr>>

\* variant of MissingBranch that never looks at DB_REQUIRED
MissingBranchIgnoresPolicy(env) ==
    /\ probeResult' = "MissingConfig"
    /\ log' = Append(log, LogRecord("INFO", MsgMissing, TRUE))
    /\ ProbeReturns(None)

\* the `if missing:` branch, lines 83-89
MissingBranch(env) ==
    /\ probeResult' = "MissingConfig"
    /\ IF DB_REQUIRED
       THEN /\ SystemExit(MsgMissing)
            /\ UNCHANGED <<log, conn>>
       ELSE /\ log' = Append(log, LogRecord("INFO", MsgMissing, TRUE))
            /\ ProbeReturns(None)

\* variant of ConnectBranch that ends the process on any failure
ConnectBranchAlwaysFatal(env, reachable) ==
    LET setLog == Append(log, LogRecord("INFO", "All DB environment variables are set", FALSE))
    IN IF IsInt(env["DB_PORT"]) /\ reachable
       THEN /\ probeResult' = "Connected"
            /\ log' = Append(setLog, LogRecord("INFO", "Connected to Postgres successfully", FALSE))
            /\ ProbeReturns("connection")
       ELSE /\ probeResult' = "ConnectionFailed"
            /\ log' = Append(setLog, LogRecord("CRITICAL", MsgFailed, FALSE))
            /\ SystemExit(MsgFailed)
            /\ UNCHANGED conn

\* the try/except around psycopg2.connect, lines 94-111; int(DB_PORT) is evaluated
\* inside the try, so a non-numeric port is caught like any connection error
ConnectBranch(env, reachable) ==
    LET setLog == Append(log, LogRecord("INFO", "All DB environment variables are set", FALSE))
    IN IF IsInt(env["DB_PORT"]) /\ reachable
       THEN /\ probeResult' = "Connected"
            /\ log' = Append(setLog, LogRecord("INFO", "Connected to Postgres successfully", FALSE))
            /\ ProbeReturns("connection")
       ELSE /\ probeResult' = "ConnectionFailed"
            /\ IF DB_REQUIRED
               THEN /\ log' = Append(setLog, LogRecord("CRITICAL", MsgFailed, FALSE))
                    /\ SystemExit(MsgFailed)
                    /\ UNCHANGED conn
               ELSE /\ log' = Append(setLog, LogRecord("WARNING", MsgFailed, TRUE))
                    /\ ProbeReturns(None)

\* line 236: app.logger.info("Delaying startup for ... seconds"), entering the sleep
AnnounceDelay ==
    /\ phase = "boot"
    /\ phase' = "sleeping"
    /\ log' = Append(log, LogRecord("INFO", "Delaying startup", FALSE))
    /\ UNCHANGED <<delayLeft, probeResult, conn, exitCode, stderr, startupTrace>>
    /\ UNCHANGED <<configVars, healthVars, renderVars, fileVars>>

\* line 237: one second of time.sleep(STARTUP_DELAY) passes
SleepTick ==
    /\ phase = "sleeping"
    /\ delayLeft > 0
    /\ delayLeft' = delayLeft - 1
    /\ UNCHANGED <<phase, probeResult, conn, exitCode, log, stderr, startupTrace>>
    /\ UNCHANGED <<configVars, healthVars, renderVars, fileVars>>

\* line 237: time.sleep returns
SleepDone ==
    /\ phase = "sleeping"
    /\ delayLeft = 0
    /\ phase' = "probe"
    /\ startupTrace' = Append(startupTrace, "delay")
    /\ UNCHANGED <<delayLeft, probeResult, conn, exitCode, log, stderr>>
    /\ UNCHANGED <<configVars, healthVars, renderVars, fileVars>>

\* line 240: init_db_connection(), under an environment and a database
\* reachability chosen by the deployment
init_db_connection ==
    /\ phase = "probe"
    /\ startupTrace' = Append(startupTrace, "probe")
    /\ \E env \in [DbKeySet -> EnvValues], reachable \in BOOLEAN :
          IF missing(env) # <<>>
          THEN MissingBranch(env)
          ELSE ConnectBranch(env, reachable)
    /\ UNCHANGED delayLeft
    /\ UNCHANGED <<configVars, healthVars, renderVars, fileVars>>

\* variant of app_run that does not wait for the probe
ServerStartsBeforeProbe ==
    /\ phase \in {"probe", "probed"}
    /\ phase' = "serving"
    /\ startupTrace' = Append(startupTrace, "serve")
    /\ UNCHANGED <<delayLeft, probeResult, conn, exitCode, log, stderr>>
    /\ UNCHANGED <<configVars, healthVars, renderVars, fileVars>>

\* line 246: app.run(...): the server begins accepting requests
app_run ==
    /\ phase = "probed"
    /\ phase' = "serving"
    /\ startupTrace' = Append(startupTrace, "serve")
    /\ UNCHANGED <<delayLeft, probeResult, conn, exitCode, log, stderr>>
    /\ UNCHANGED <<configVars, healthVars, renderVars, fileVars>>

Startup == AnnounceDelay \/ SleepTick \/ SleepDone \/ init_db_connection \/ app_run

\* ------------------------------------------------------------ health state
\* the request threads of the server: two, to interleave any two handlers
Threads == {"t1", "t2"}

\* values request.args.get("reason") / request.form.get("reason") can give
ArgValues == {None, "", "disk"}
FormValues == {None, "", "net"}

NoRequest == [op |-> "none", args |-> None, form |-> None]

Requests ==
    {[op |-> "GET /health", args |-> None, form |-> None],
     [op |-> "POST /health/ok", args |-> None, form |-> None]}
    \cup [op : {"POST /health/fail"}, args : ArgValues, form : FormValues]

Response(status, text, arg) == [status |-> status, text |-> text, arg |-> arg]

NoResponse == Response(0, "", "")

\* an I/O step of a handler: a log write or the construction of the response;
\* locked records whether the thread held _health_fail_lock while doing it
IoEvent(kind, t) == [kind |-> kind, locked |-> health_fail_lock = t]

\* Python's `a or b or c`
Or3(a, b, c) == IF Truthy(a) THEN a ELSE IF Truthy(b) THEN b ELSE c

\* Python's `a or b`
Or2(a, b) == IF Truthy(a) THEN a ELSE b

\* the (flag, reason) pair as a mutation leaves it
Healthy == <<FALSE, "">>

NoMutation == [op |-> "none", args |-> None, form |-> None]

\* variant of LockFree: a lock that lets every thread in
LockNeverWaits(t) == TRUE

\* `with _health_fail_lock:` can be entered
LockFree(t) == health_fail_lock = None

\* a thread of the server picks up a request and dispatches it to its handler
Dispatch(t) ==
    /\ phase = "serving"
    /\ pc[t] \in {"idle", "done"}
    /\ \E r \in Requests :
          /\ req' = [req EXCEPT ![t] = r]
          /\ pc' = [pc EXCEPT ![t] =
                      CASE r.op = "GET /health" -> "h_acquire"
                        [] r.op = "POST /health/fail" -> "f_reason"
                        [] r.op = "POST /health/ok" -> "k_acquire"]
    /\ reason' = [reason EXCEPT ![t] = ""]
    /\ io' = [io EXCEPT ![t] = <<>>]
    /\ resp' = [resp EXCEPT ![t] = NoResponse]
    /\ seen' = [seen EXCEPT ![t] = NoMutation]
    /\ pre' = [pre EXCEPT ![t] = Healthy]
    /\ UNCHANGED <<health_fail_flag, health_fail_reason, health_fail_lock, lastMut>>
    /\ UNCHANGED <<configVars, startupVars, renderVars, fileVars>>

\* ---- health(), lines 160-168
\* line 163: with _health_fail_lock:
health_acquire(t) ==
    /\ pc[t] = "h_acquire"
    /\ LockFree(t)
    /\ health_fail_lock' = t
    /\ seen' = [seen EXCEPT ![t] = lastMut]
    /\ pc' = [pc EXCEPT ![t] = "h_flag"]
    /\ UNCHANGED <<health_fail_flag, health_fail_reason, req, reason, io, resp, pre, lastMut>>
    /\ UNCHANGED <<configVars, startupVars, renderVars, fileVars>>

\* line 164: if _health_fail:
health_read_flag(t) ==
    /\ pc[t] = "h_flag"
    /\ pc' = [pc EXCEPT ![t] = IF health_fail_flag THEN "h_reason" ELSE "h_release"]
    /\ UNCHANGED <<health_fail_flag, health_fail_reason, health_fail_lock,
                   req, reason, io, resp, seen, pre, lastMut>>
    /\ UNCHANGED <<configVars, startupVars, renderVars, fileVars>>

\* line 165: reason = _health_fail_reason or "forced-failure"
health_read_reason(t) ==
    /\ pc[t] = "h_reason"
    /\ reason' = [reason EXCEPT ![t] = Or2(health_fail_reason, "forced-failure")]
    /\ pc' = [pc EXCEPT ![t] = "h_log"]
    /\ UNCHANGED <<health_fail_flag, health_fail_reason, health_fail_lock,
                   req, io, resp, seen, pre, lastMut>>
    /\ UNCHANGED <<configVars, startupVars, renderVars, fileVars>>

\* line 166: app.logger.warning(...), inside the with block
health_log(t) ==
    /\ pc[t] = "h_log"
    /\ io' = [io EXCEPT ![t] = Append(@, IoEvent("log WARNING", t))]
    /\ pc' = [pc EXCEPT ![t] = "h_response"]
    /\ UNCHANGED <<health_fail_flag, health_fail_reason, health_fail_lock,
                   req, reason, resp, seen, pre, lastMut>>
    /\ UNCHANGED <<configVars, startupVars, renderVars, fileVars>>

\* line 167: Response(f"unhealthy: {reason}", status=503), built inside the with
\* block; the return then leaves the block
health_response_503(t) ==
    /\ pc[t] = "h_response"
    /\ resp' = [resp EXCEPT ![t] = Response(503, "unhealthy: ", reason[t])]
    /\ io' = [io EXCEPT ![t] = Append(@, IoEvent("response", t))]
    /\ pc' = [pc EXCEPT ![t] = "h_release"]
    /\ UNCHANGED <<health_fail_flag, health_fail_reason, health_fail_lock,
                   req, reason, seen, pre, lastMut>>
    /\ UNCHANGED <<configVars, startupVars, renderVars, fileVars>>

\* the with block is left: by the return of line 167, or by falling out of it
health_release(t) ==
    /\ pc[t] = "h_release"
    /\ health_fail_lock' = None
    /\ pc' = [pc EXCEPT ![t] = IF resp[t] = NoResponse THEN "h_ok" ELSE "done"]
    /\ UNCHANGED <<health_fail_flag, health_fail_reason,
                   req, reason, io, resp, seen, pre, lastMut>>
    /\ UNCHANGED <<configVars, startupVars, renderVars, fileVars>>

\* line 168: Response("ok", status=200)
health_response_200(t) ==
    /\ pc[t] = "h_ok"
    /\ resp' = [resp EXCEPT ![t] = Response(200, "ok", "")]
    /\ io' = [io EXCEPT ![t] = Append(@, IoEvent("response", t))]
    /\ pc' = [pc EXCEPT ![t] = "done"]
    /\ UNCHANGED <<health_fail_flag, health_fail_reason, health_fail_lock,
                   req, reason, seen, pre, lastMut>>
    /\ UNCHANGED <<configVars, startupVars, renderVars, fileVars>>

health(t) ==
    \/ health_acquire(t)
    \/ health_read_flag(t)
    \/ health_read_reason(t)
    \/ health_log(t)
    \/ health_response_503(t)
    \/ health_release(t)
    \/ health_response_200(t)

\* ---- health_fail(), lines 171-180
\* variant of fail_reason that defaults only an absent reason, not an empty one
fail_reason_keeps_empty(t) ==
    /\ pc[t] = "f_reason"
    /\ reason' = [reason EXCEPT ![t] =
                    IF req[t].args # None THEN req[t].args
                    ELSE IF req[t].form # None THEN req[t].form ELSE "manual"]
    /\ pc' = [pc EXCEPT ![t] = "f_acquire"]
    /\ UNCHANGED <<health_fail_flag, health_fail_reason, health_fail_lock,
                   req, io, resp, seen, pre, lastMut>>
    /\ UNCHANGED <<configVars, startupVars, renderVars, fileVars>>

\* line 174: reason = request.args.get("reason") or request.form.get("reason") or "manual"
fail_reason(t) ==
    /\ pc[t] = "f_reason"
    /\ reason' = [reason EXCEPT ![t] = Or3(req[t].args, req[t].form, "manual")]
    /\ pc' = [pc EXCEPT ![t] = "f_acquire"]
    /\ UNCHANGED <<health_fail_flag, health_fail_reason, health_fail_lock,
                   req, io, resp, seen, pre, lastMut>>
    /\ UNCHANGED <<configVars, startupVars, renderVars, fileVars>>

\* line 176: with _health_fail_lock:
fail_acquire(t) ==
    /\ pc[t] = "f_acquire"
    /\ LockFree(t)
    /\ health_fail_lock' = t
    /\ lastMut' = req[t]
    /\ pre' = [pre EXCEPT ![t] = <<health_fail_flag, health_fail_reason>>]
    /\ pc' = [pc EXCEPT ![t] = "f_flag"]
    /\ UNCHANGED <<health_fail_flag, health_fail_reason, req, reason, io, resp, seen>>
    /\ UNCHANGED <<configVars, startupVars, renderVars, fileVars>>

\* line 177: _health_fail = True
fail_set_flag(t) ==
    /\ pc[t] = "f_flag"
    /\ health_fail_flag' = TRUE
    /\ pc' = [pc EXCEPT ![t] = "f_store"]
    /\ UNCHANGED <<health_fail_reason, health_fail_lock,
                   req, reason, io, resp, seen, pre, lastMut>>
    /\ UNCHANGED <<configVars, startupVars, renderVars, fileVars>>

\* line 178: _health_fail_reason = reason
fail_set_reason(t) ==
    /\ pc[t] = "f_store"
    /\ health_fail_reason' = reason[t]
    /\ pc' = [pc EXCEPT ![t] = "f_release"]
    /\ UNCHANGED <<health_fail_flag, health_fail_lock,
                   req, reason, io, resp, seen, pre, lastMut>>
    /\ UNCHANGED <<configVars, startupVars, renderVars, fileVars>>

\* the with block of lines 176-178 is left
fail_release(t) ==
    /\ pc[t] = "f_release"
    /\ health_fail_lock' = None
    /\ pre' = [pre EXCEPT ![t] = Healthy]
    /\ pc' = [pc EXCEPT ![t] = "f_log"]
    /\ UNCHANGED <<health_fail_flag, health_fail_reason,
                   req, reason, io, resp, seen, lastMut>>
    /\ UNCHANGED <<configVars, startupVars, renderVars, fileVars>>

\* line 179: app.logger.warning(...)
fail_log(t) ==
    /\ pc[t] = "f_log"
    /\ io' = [io EXCEPT ![t] = Append(@, IoEvent("log WARNING", t))]
    /\ pc' = [pc EXCEPT ![t] = "f_response"]
    /\ UNCHANGED <<health_fail_flag, health_fail_reason, health_fail_lock,
                   req, reason, resp, seen, pre, lastMut>>
    /\ UNCHANGED <<configVars, startupVars, renderVars, fileVars>>

\* line 180: Response(f"health failure set: {reason}", status=200)
fail_response(t) ==
    /\ pc[t] = "f_response"
    /\ resp' = [resp EXCEPT ![t] = Response(200, "health failure set: ", reason[t])]
    /\ io' = [io EXCEPT ![t] = Append(@, IoEvent("response", t))]
    /\ pc' = [pc EXCEPT ![t] = "done"]
    /\ UNCHANGED <<health_fail_flag, health_fail_reason, health_fail_lock,
                   req, reason, seen, pre, lastMut>>
    /\ UNCHANGED <<configVars, startupVars, renderVars, fileVars>>

health_fail(t) ==
    \/ fail_reason(t)
    \/ fail_acquire(t)
    \/ fail_set_flag(t)
    \/ fail_set_reason(t)
    \/ fail_release(t)
    \/ fail_log(t)
    \/ fail_response(t)

\* ---- health_ok(), lines 183-191
\* line 187: with _health_fail_lock:
ok_acquire(t) ==
    /\ pc[t] = "k_acquire"
    /\ LockFree(t)
    /\ health_fail_lock' = t
    /\ lastMut' = req[t]
    /\ pre' = [pre EXCEPT ![t] = <<health_fail_flag, health_fail_reason>>]
    /\ pc' = [pc EXCEPT ![t] = "k_flag"]
    /\ UNCHANGED <<health_fail_flag, health_fail_reason, req, reason, io, resp, seen>>
    /\ UNCHANGED <<configVars, startupVars, renderVars, fileVars>>

\* line 188: _health_fail = False
ok_set_flag(t) ==
    /\ pc[t] = "k_flag"
    /\ health_fail_flag' = FALSE
    /\ pc' = [pc EXCEPT ![t] = "k_store"]
    /\ UNCHANGED <<health_fail_reason, health_fail_lock,
                   req, reason, io, resp, seen, pre, lastMut>>
    /\ UNCHANGED <<configVars, startupVars, renderVars, fileVars>>

\* variant of ok_set_reason that leaves the reason in place
ok_keeps_reason(t) ==
    /\ pc[t] = "k_store"
    /\ pc' = [pc EXCEPT ![t] = "k_release"]
    /\ UNCHANGED <<health_fail_flag, health_fail_reason, health_fail_lock,
                   req, reason, io, resp, seen, pre, lastMut>>
    /\ UNCHANGED <<configVars, startupVars, renderVars, fileVars>>

\* line 189: _health_fail_reason = ""
ok_set_reason(t) ==
    /\ pc[t] = "k_store"
    /\ health_fail_reason' = ""
    /\ pc' = [pc EXCEPT ![t] = "k_release"]
    /\ UNCHANGED <<health_fail_flag, health_fail_lock,
                   req, reason, io, resp, seen, pre, lastMut>>
    /\ UNCHANGED <<configVars, startupVars, renderVars, fileVars>>

\* the with block of lines 187-189 is left
ok_release(t) ==
    /\ pc[t] = "k_release"
    /\ health_fail_lock' = None
    /\ pre' = [pre EXCEPT ![t] = Healthy]
    /\ pc' = [pc EXCEPT ![t] = "k_log"]
    /\ UNCHANGED <<health_fail_flag, health_fail_reason,
                   req, reason, io, resp, seen, lastMut>>
    /\ UNCHANGED <<configVars, startupVars, renderVars, fileVars>>

\* line 190: app.logger.info(...)
ok_log(t) ==
    /\ pc[t] = "k_log"
    /\ io' = [io EXCEPT ![t] = Append(@, IoEvent("log INFO", t))]
    /\ pc' = [pc EXCEPT ![t] = "k_response"]
    /\ UNCHANGED <<health_fail_flag, health_fail_reason, health_fail_lock,
                   req, reason, resp, seen, pre, lastMut>>
    /\ UNCHANGED <<configVars, startupVars, renderVars, fileVars>>

\* line 191: Response("health restored", status=200)
ok_response(t) ==
    /\ pc[t] = "k_response"
    /\ resp' = [resp EXCEPT ![t] = Response(200, "health restored", "")]
    /\ io' = [io EXCEPT ![t] = Append(@, IoEvent("response", t))]
    /\ pc' = [pc EXCEPT ![t] = "done"]
    /\ UNCHANGED <<health_fail_flag, health_fail_reason, health_fail_lock,
                   req, reason, seen, pre, lastMut>>
    /\ UNCHANGED <<configVars, startupVars, renderVars, fileVars>>

health_ok(t) ==
    \/ ok_acquire(t)
    \/ ok_set_flag(t)
    \/ ok_set_reason(t)
    \/ ok_release(t)
    \/ ok_log(t)
    \/ ok_response(t)

\* ------------------------------------------------------------ the server process
\* the variables of the pure-function checks, unused by the server process
RenderIdle == html_text = <<>> /\ rendered = <<>> /\ calls = 0

FilesIdle == files = {} /\ filename = <<>> /\ served = [status |-> 0, path |-> <<>>, banner |-> FALSE]

\* the variables of the server process, unused by the pure-function checks
ServerIdle ==
    /\ DB_REQUIRED = FALSE
    /\ phase = "boot" /\ delayLeft = 0 /\ probeResult = None /\ conn = None
    /\ exitCode = <<>> /\ log = <<>> /\ stderr = <<>> /\ startupTrace = <<>>
    /\ health_fail_flag = FALSE /\ health_fail_reason = "" /\ health_fail_lock = None
    /\ pc = [t \in Threads |-> "idle"]
    /\ req = [t \in Threads |-> NoRequest]
    /\ reason = [t \in Threads |-> ""]
    /\ io = [t \in Threads |-> <<>>]
    /\ resp = [t \in Threads |-> NoResponse]
    /\ seen = [t \in Threads |-> NoMutation]
    /\ pre = [t \in Threads |-> Healthy]
    /\ lastMut = NoMutation

\* the state after lines 1-234 have run: configuration read (lines 58-71), the
\* DB_REQUIRED notice logged (lines 65-68), health state initial (lines 156-158)
Init ==
    /\ DB_REQUIRED \in BOOLEAN
    /\ APP_VARIANT = "v3"
    /\ phase = "boot"
    /\ delayLeft \in 0..MaxDelay       \* STARTUP_DELAY, line 71
    /\ probeResult = None
    /\ conn = None
    /\ exitCode = <<>>
    /\ log = <<LogRecord("INFO", IF DB_REQUIRED THEN "DB_REQUIRED is set to True"
                                      ELSE "DB_REQUIRED is set to False", FALSE)>>
    /\ stderr = <<>>
    /\ startupTrace = <<>>
    /\ health_fail_flag = FALSE
    /\ health_fail_reason = ""
    /\ health_fail_lock = None
    /\ pc = [t \in Threads |-> "idle"]
    /\ req = [t \in Threads |-> NoRequest]
    /\ reason = [t \in Threads |-> ""]
    /\ io = [t \in Threads |-> <<>>]
    /\ resp = [t \in Threads |-> NoResponse]
    /\ seen = [t \in Threads |-> NoMutation]
    /\ pre = [t \in Threads |-> Healthy]
    /\ lastMut = NoMutation
    /\ RenderIdle
    /\ FilesIdle

Next ==
    \/ Startup
    \/ \E t \in Threads : Dispatch(t) \/ health(t) \/ health_fail(t) \/ health_ok(t)

Spec == Init /\ [][Next]_vars

\* the main thread runs lines 236-246 to the end: time.sleep returns, the connection
\* attempt is bounded by connect_timeout=5
FairSpec == Init /\ [][Next]_vars /\ WF_vars(Startup)

\* ------------------------------------------------------------ claims: health state
\* the reason a /health/fail request gives: its query field, else its form field
ReasonGiven(m) == IF Truthy(m.args) THEN m.args ELSE m.form

\* what GET /health is to answer after mutation m
Expected(m) ==
    IF m.op = "POST /health/fail"
    THEN Response(503, "unhealthy: ",
                  IF Truthy(ReasonGiven(m)) THEN ReasonGiven(m) ELSE "manual")
    ELSE Response(200, "ok", "")

\* C2: every answered GET /health reflects the most recent mutation in
\* lock-acquisition order (seen[t] is the last mutation that took the lock before
\* the GET took it): 200 "ok" after none or /health/ok, else 503 "unhealthy: r"
\* with r the reason given to that /health/fail, "manual" when empty or absent.
C2_HealthReflectsLastMutation ==
    \A t \in Threads :
        (pc[t] = "done" /\ req[t].op = "GET /health") => resp[t] = Expected(seen[t])

\* a GET answered 503 "unhealthy: manual" after a /health/fail whose reason was
\* empty, while the other thread has itself taken part (it is past its dispatch)
C2_Witness ==
    \E t \in Threads :
        /\ pc[t] = "done" /\ req[t].op = "GET /health"
        /\ seen[t].op = "POST /health/fail" /\ seen[t].args = "" /\ seen[t].form = None
        /\ resp[t] = Response(503, "unhealthy: ", "manual")
        /\ \E u \in Threads \ {t} : pc[u] = "k_acquire"

\* C8: transitions are total and idempotent: when fail(r) has written, the state is
\* (unhealthy, r) whatever it was before; when restore() has written, the state is
\* (healthy, "") and equals the prior state if that was healthy; both mutating
\* endpoints answer 200.
C8_TransitionsIdempotentTotal ==
    \A t \in Threads :
        /\ pc[t] = "f_release" =>
              (health_fail_flag /\ health_fail_reason = reason[t])
        /\ pc[t] = "k_release" =>
              /\ <<health_fail_flag, health_fail_reason>> = Healthy
              /\ pre[t] = Healthy => <<health_fail_flag, health_fail_reason>> = pre[t]
        /\ (pc[t] = "done" /\ req[t].op \in {"POST /health/fail", "POST /health/ok"}) =>
              resp[t].status = 200

\* fail while already failed has overwritten a different reason
C8_Witness ==
    \E t \in Threads :
        /\ pc[t] = "f_release"
        /\ pre[t][1] = TRUE /\ pre[t][2] # reason[t]
        /\ health_fail_reason = reason[t]

\* C9: no handler performs an I/O step (a log write, the construction of its
\* response) while it holds _health_fail_lock.
C9_NoIoUnderLock ==
    \A t \in Threads : \A i \in 1..Len(io[t]) : ~io[t][i].locked

\* the positions of a handler inside its with block
LockedSection ==
    {"h_flag", "h_reason", "h_log", "h_response", "h_release",
     "f_flag", "f_store", "f_release", "k_flag", "k_store", "k_release"}

\* C10: at most one handler is inside the lock-protected section, a reader inside
\* it sees a consistent pair (flag set exactly when the reason is non-empty), and
\* the "forced-failure" fallback is never produced.
C10_MutexAndConsistentReads ==
    /\ Cardinality({t \in Threads : pc[t] \in LockedSection}) <= 1
    /\ \A t \in Threads :
          /\ pc[t] \in {"h_flag", "h_reason", "h_log", "h_response", "h_release"} =>
                (health_fail_flag <=> health_fail_reason # "")
          /\ reason[t] # "forced-failure"
          /\ resp[t].arg # "forced-failure"

\* a reader reads the reason of an unhealthy state while a mutator waits for the lock
C10_Witness ==
    \E t \in Threads, u \in Threads :
        /\ pc[t] = "h_reason" /\ health_fail_flag
        /\ pc[u] \in {"f_acquire", "k_acquire"}

\* ------------------------------------------------------------ claims: startup
FatalOutcome == DB_REQUIRED /\ probeResult \in {"MissingConfig", "ConnectionFailed"}

Explanation == IF probeResult = "MissingConfig" THEN MsgMissing ELSE MsgFailed

Logged(text) == \E i \in 1..Len(log) : log[i].text = text

OnStderr(text) == \E i \in 1..Len(stderr) : stderr[i] = text

Accepting == phase = "serving" \/ \E i \in 1..Len(startupTrace) : startupTrace[i] = "serve"

\* C3 as stated: under DB_REQUIRED, MissingConfig and ConnectionFailed end the
\* process with a non-zero exit and a logged explanation, the server never accepting.
C3_FatalWithLoggedExplanation ==
    FatalOutcome =>
        /\ phase = "exited"
        /\ exitCode # <<>> /\ exitCode[1] # 0
        /\ Logged(Explanation)
        /\ ~Accepting

\* C3 as amended: under DB_REQUIRED, MissingConfig and ConnectionFailed end the
\* process with a non-zero exit, the server never accepting; the explanation is the
\* SystemExit message on stderr, and a log record (CRITICAL) is written for
\* ConnectionFailed only.
C3_FatalWithExplanation ==
    FatalOutcome =>
        /\ phase = "exited"
        /\ exitCode # <<>> /\ exitCode[1] # 0
        /\ OnStderr(Explanation)
        /\ (probeResult = "ConnectionFailed") =>
              \E i \in 1..Len(log) : log[i] = LogRecord("CRITICAL", MsgFailed, FALSE)
        /\ (probeResult = "MissingConfig") => ~Logged(MsgMissing)
        /\ ~Accepting

\* the probe has ended the process for missing configuration
C3_Witness ==
    /\ DB_REQUIRED /\ probeResult = "MissingConfig"
    /\ phase = "exited" /\ exitCode = <<1>>

\* C4: without DB_REQUIRED every probe outcome lets startup continue: the process
\* does not end in the probe, the two failure outcomes leave no connection, and the
\* server eventually accepts requests.
C4_OptionalProbeContinues ==
    /\ [](~DB_REQUIRED =>
            /\ phase # "exited"
            /\ probeResult \in {"MissingConfig", "ConnectionFailed"} => conn = None)
    /\ (~DB_REQUIRED) ~> (phase = "serving")

\* the server accepts requests after a failed connection attempt
C4_Witness ==
    /\ ~DB_REQUIRED /\ probeResult = "ConnectionFailed"
    /\ conn = None /\ phase = "serving"
    /\ \E i \in 1..Len(log) : log[i] = LogRecord("WARNING", MsgFailed, TRUE)

StartupOrder == <<"delay", "probe", "serve">>

IsPrefix(s, r) == Len(s) <= Len(r) /\ \A i \in 1..Len(s) : s[i] = r[i]

\* C5: the startup steps occur in the order delay, probe, server start, each at most
\* once and the probe exactly once before the server accepts; no request is handled
\* before the server accepts; until then the health state is its initial healthy value.
C5_StartupOrder ==
    /\ IsPrefix(startupTrace, StartupOrder)
    /\ phase = "serving" <=> startupTrace = StartupOrder
    /\ phase # "serving" =>
          /\ \A t \in Threads : pc[t] = "idle"
          /\ <<health_fail_flag, health_fail_reason>> = Healthy
          /\ health_fail_lock = None
          /\ lastMut = NoMutation

\* the server is handling a request, after a delay of a second and the probe
C5_Witness ==
    /\ phase = "serving" /\ startupTrace = StartupOrder
    /\ \E i \in 1..Len(log) : log[i].text = "Delaying startup"
    /\ probeResult # None
    /\ \E t \in Threads : pc[t] = "h_flag"

\* ------------------------------------------------------------ inject_variant_banner
\* html_text and the banner are sequences of characters (one-character strings);
\* a fixed run of banner markup is one element.
Variants == {"v1", "v2"}

\* str.lower() on the letters of the pattern's tag name; other characters used
\* here have no case
Lower(c) ==
    CASE c = "B" -> "b" [] c = "O" -> "o" [] c = "D" -> "d" [] c = "Y" -> "y"
      [] OTHER -> c

\* lines 116-120: the banner f-string
banner(variant) ==
    <<"<div style=\"position:fixed;left:0;top:0;background:#ffcc00;color:#000;padding:6px 10px;z-index:9999;font-weight:bold;\">Variant: ",
      variant, "</div>">>

\* the literal part of the pattern r"(<body[^>]*>)"
BodyOpen == <<"<", "b", "o", "d", "y">>

\* the literal "<body" matches at position i, ignoring case (flags=re.IGNORECASE)
LiteralAt(h, i) ==
    /\ i + Len(BodyOpen) - 1 <= Len(h)
    /\ \A k \in 1..Len(BodyOpen) : Lower(h[i + k - 1]) = BodyOpen[k]

RECURSIVE SkipNotGt(_, _)
\* [^>]*> from position j: the position of the first ">" at or after j, 0 if none
SkipNotGt(h, j) ==
    IF j > Len(h) THEN 0
    ELSE IF h[j] = ">" THEN j
    ELSE SkipNotGt(h, j + 1)

\* the end of the pattern's match starting at i (the position of its ">"), 0 if
\* the pattern does not match at i
MatchEnd(h, i) == IF LiteralAt(h, i) THEN SkipNotGt(h, i + Len(BodyOpen)) ELSE 0

RECURSIVE SearchFrom(_, _)
\* re.search: the match at the leftmost position at or after i; 0 if there is none
SearchFrom(h, i) ==
    IF i > Len(h) THEN 0
    ELSE IF MatchEnd(h, i) # 0 THEN MatchEnd(h, i)
    ELSE SearchFrom(h, i + 1)

\* m.end() of re.search(r"(<body[^>]*>)", html_text, flags=re.IGNORECASE), as the
\* number of characters up to and including the match; 0 for no match
re_search_end(h) == SearchFrom(h, 1)

\* lines 114-126
inject_variant_banner(h, variant) ==
    LET e == re_search_end(h)
    IN IF e # 0
       THEN SubSeq(h, 1, e) \o banner(variant) \o SubSeq(h, e + 1, Len(h))
       ELSE banner(variant) \o h

\* the pieces html_text inputs are put together from
Pieces ==
    {<<"<", "b", "o", "d", "y">>, <<"<", "B", "o", "D", "Y">>, <<"<", "b", "o">>,
     <<"d", "y">>, <<">">>, <<"x">>, <<" ">>}

RECURSIVE Flatten(_)
Flatten(ss) == IF ss = <<>> THEN <<>> ELSE Head(ss) \o Flatten(Tail(ss))

HtmlInputs == {Flatten(ss) : ss \in UNION {[1..n -> Pieces] : n \in 0..MaxParts}}

\* index(), lines 134-138: the page is sent as it is under variant "v1" and with
\* the banner under any other variant
index ==
    /\ calls = 0
    /\ calls' = 1
    /\ rendered' = IF APP_VARIANT = "v1" THEN html_text
                   ELSE inject_variant_banner(html_text, APP_VARIANT)
    /\ UNCHANGED <<html_text, configVars, startupVars, healthVars, fileVars>>

InitRender ==
    /\ html_text \in HtmlInputs
    /\ APP_VARIANT \in Variants
    /\ rendered = <<>>
    /\ calls = 0
    /\ ServerIdle
    /\ FilesIdle

NextRender == index

SpecRender == InitRender /\ [][NextRender]_vars

\* ------------------------------------------------------------ claims: rendering
\* the characters that end a tag name in HTML
TagNameEnd == {">", " ", "/"}

\* an opening <body> tag starts at position i of h: "<body" in any letter case,
\* the tag name ending there, closed by a later ">"
BodyTagAt(h, i) ==
    /\ i + 5 <= Len(h)
    /\ \A k \in 1..5 : Lower(h[i + k - 1]) = BodyOpen[k]
    /\ h[i + 5] \in TagNameEnd
    /\ \E j \in (i + 5)..Len(h) : h[j] = ">"

HasBodyTag(h) == \E i \in 1..Len(h) : BodyTagAt(h, i)

FirstBodyTag(h) == CHOOSE i \in 1..Len(h) : BodyTagAt(h, i) /\ \A k \in 1..(i - 1) : ~BodyTagAt(h, k)

\* the position of the closing ">" of the first <body> tag of h
FirstBodyTagClose(h) ==
    CHOOSE j \in (FirstBodyTag(h) + 5)..Len(h) :
        h[j] = ">" /\ \A k \in (FirstBodyTag(h) + 5)..(j - 1) : h[k] # ">"

\* C6: for html_text with no <body> tag the rendering is exactly banner + html_text.
C6_NoBodyTagPrepends ==
    (calls = 1 /\ APP_VARIANT # "v1" /\ ~HasBodyTag(html_text)) =>
        rendered = banner(APP_VARIANT) \o html_text

\* C7: for a variant other than "v1" and html_text with a <body> tag the banner
\* stands immediately after the closing ">" of the first <body> tag, the text before
\* and after it unchanged.
C7_BannerAfterFirstBodyTag ==
    (calls = 1 /\ APP_VARIANT # "v1" /\ HasBodyTag(html_text)) =>
        LET j == FirstBodyTagClose(html_text)
        IN rendered = SubSeq(html_text, 1, j) \o banner(APP_VARIANT)
                      \o SubSeq(html_text, j + 1, Len(html_text))

\* ------------------------------------------------------------ serve_file
\* A path is a sequence of names, a name a sequence of characters; the file system
\* has no symbolic links, so Path.resolve() is the lexical resolution of "." and "..".
DOT == <<".">>
DOTDOT == <<".", ".">>

\* directory names, abbreviated: the directory of app.py ("app"), the asset bundle
\* "globomantics-asset-bundle" ("gab"), "web-pages" ("wp"), and a sibling of
\* web-pages whose name begins with its name ("wp-o", for "web-pages-other")
AppDir == <<"a", "p", "p">>
BundleDir == <<"g", "a", "b">>
WebPages == <<"w", "p">>
WebPagesOther == <<"w", "p", "-", "o">>

\* file names: a page and an image under web-pages, two files elsewhere
PageHtml == <<"a", ".", "h", "t", "m", "l">>
LogoPng == <<"c", ".", "p", "n", "g">>
SecretHtml == <<"s", ".", "H", "T", "M", "L">>
SecretTxt == <<"s", ".", "t", "x", "t">>

\* lines 13-14: WEB_PAGES_DIR = (BASE_DIR / "globomantics-asset-bundle" / "web-pages").resolve()
WEB_PAGES_DIR == <<AppDir, BundleDir, WebPages>>

SiblingDir == <<AppDir, BundleDir, WebPagesOther>>

\* the files that may be on disk
CandidateFiles ==
    {WEB_PAGES_DIR \o <<PageHtml>>, WEB_PAGES_DIR \o <<LogoPng>>,
     SiblingDir \o <<SecretHtml>>, SiblingDir \o <<SecretTxt>>,
     <<AppDir, SecretTxt>>}

\* the segments a requested filename is made of
Segments == {DOT, DOTDOT, WebPagesOther, PageHtml, LogoPng, SecretHtml, SecretTxt}

Filenames == UNION {[1..n -> Segments] : n \in 1..MaxSegs}

RECURSIVE ResolveFrom(_, _)
\* Path.resolve(): "." is dropped, ".." drops the name before it (none at "/")
ResolveFrom(done, rest) ==
    IF rest = <<>> THEN done
    ELSE IF Head(rest) = DOT THEN ResolveFrom(done, Tail(rest))
    ELSE IF Head(rest) = DOTDOT
         THEN ResolveFrom(IF done = <<>> THEN <<>> ELSE SubSeq(done, 1, Len(done) - 1),
                          Tail(rest))
    ELSE ResolveFrom(Append(done, Head(rest)), Tail(rest))

resolve(path) == ResolveFrom(<<>>, path)

RECURSIVE str(_)
\* str(path): "/" before every name
str(path) == IF path = <<>> THEN <<>> ELSE <<"/">> \o Head(path) \o str(Tail(path))

\* a.startswith(b), on characters
startswith(a, b) == Len(b) <= Len(a) /\ SubSeq(a, 1, Len(b)) = b

\* the path lies under WEB_PAGES_DIR, name by name (what relative_to accepts)
is_relative_to(path, dir) == Len(dir) <= Len(path) /\ SubSeq(path, 1, Len(dir)) = dir

\* the containment test of line 144
Contained(requested) == startswith(str(requested), str(WEB_PAGES_DIR))

\* the directories on disk: those above the files, and WEB_PAGES_DIR and above
Directories ==
    {SubSeq(WEB_PAGES_DIR, 1, n) : n \in 0..Len(WEB_PAGES_DIR)}
    \cup UNION {{SubSeq(f, 1, n) : n \in 0..(Len(f) - 1)} : f \in files}

\* Path.exists()
exists(path) == path \in files \/ path \in Directories

RECURSIVE LastDot(_, _)
\* the position of the last "." of a name, below position i; 0 if none
LastDot(name, i) ==
    IF i = 0 THEN 0 ELSE IF name[i] = "." THEN i ELSE LastDot(name, i - 1)

\* Path.suffix: from the last "." of the last name, unless the name starts with it
suffix(path) ==
    IF path = <<>> THEN <<>>
    ELSE LET name == path[Len(path)]
             d == LastDot(name, Len(name))
         IN IF d <= 1 THEN <<>> ELSE SubSeq(name, d, Len(name))

\* str.lower() on the letters of a suffix
LowerChar(c) ==
    CASE c = "H" -> "h" [] c = "T" -> "t" [] c = "M" -> "m" [] c = "L" -> "l"
      [] OTHER -> c

lower(cs) == [i \in 1..Len(cs) |-> LowerChar(cs[i])]

\* what a request is answered with: the status, the file whose content is sent
\* (none: <<>>), and whether the banner was put into it
Served(status, path, withBanner) ==
    [status |-> status, path |-> path, banner |-> withBanner]

\* lines 141-152; an exception that leaves the handler is answered 500. The
\* serve_file of src/globomantics-webapp/app.py (lines 20-28) is the case
\* APP_VARIANT = "v1", which never takes the banner branch.
serve_file_result(name) ==
    LET requested == resolve(WEB_PAGES_DIR \o name)
    IN IF ~Contained(requested) \/ ~exists(requested)
       THEN Served(404, <<>>, FALSE)                      \* abort(404)
       ELSE IF lower(suffix(requested)) = <<".", "h", "t", "m", "l">> /\ APP_VARIANT # "v1"
       THEN IF requested \in files
            THEN Served(200, requested, TRUE)             \* read_text, banner
            ELSE Served(500, <<>>, FALSE)                 \* read_text of a directory
       ELSE IF ~is_relative_to(requested, WEB_PAGES_DIR)
       THEN Served(500, <<>>, FALSE)                      \* relative_to: ValueError
       ELSE IF requested \in files
       THEN Served(200, requested, FALSE)                 \* send_from_directory
       ELSE Served(404, <<>>, FALSE)                      \* send_from_directory: no file

\* one request is followed per behaviour: the handler keeps no state between requests
serve_file ==
    /\ served.status = 0
    /\ \E name \in Filenames :
          /\ filename' = name
          /\ served' = serve_file_result(name)
    /\ UNCHANGED <<files, html_text, rendered, calls, configVars, startupVars, healthVars>>

InitFiles ==
    /\ files \in SUBSET CandidateFiles
    /\ APP_VARIANT \in {"v1", "v3"}
    /\ filename = <<>>
    /\ served = Served(0, <<>>, FALSE)
    /\ ServerIdle
    /\ RenderIdle

NextFiles == serve_file

SpecFiles == InitFiles /\ [][NextFiles]_vars

\* ------------------------------------------------------------ claims: content store
\* the canonical form of the requested path
Canonical(name) == resolve(WEB_PAGES_DIR \o name)

\* the canonical path is WEB_PAGES_DIR or lies below it
InsideRoot(path) ==
    /\ Len(path) >= Len(WEB_PAGES_DIR)
    /\ \A i \in 1..Len(WEB_PAGES_DIR) : path[i] = WEB_PAGES_DIR[i]

\* C1: a request whose canonical path lies outside the content root is answered
\* 404 and is sent no file content, also when the canonical path's string begins
\* with the root's string.
C1_OutsideRootNotFound ==
    (served.status # 0 /\ ~InsideRoot(Canonical(filename))) =>
        (served.status = 404 /\ served.path = <<>>)

====
